---- MODULE Spec2Model ----
(***************************************************************************)
(* RobotControl.h: the exported interface of the robot-control library.    *)
(* The header is a text that a translation unit includes; what it does is  *)
(* what the preprocessor and the compiler do with its 23 lines.  The model *)
(* is that line-by-line processing: the macro table, the conditional       *)
(* stack, the "#pragma GCC visibility" stack and the declarations emitted, *)
(* driven by a translation unit that may push and pop visibilities of its  *)
(* own, #undef the guard and include the header several times, and that    *)
(* calls LoadPath and ExecutePath once they are declared.                  *)
(***************************************************************************)
EXTENDS Integers, Sequences, FiniteSets, TLC

\* ------------------------------------------------------------------ bounds
MaxIncludes == 3
MaxDepth == 1
MaxUndef == 1
MaxCalls == 3

Visibilities == {"default", "hidden", "protected", "internal"}
Paths == {"pathA", "pathB"}
NoPath == "none"

\* ------------------------------------------------------- the header's text
\* One entry per source line, as the token sequence the lexer produces.
HeaderLines_VoidExecute ==
  << <<"//">>,
     <<"//", "RobotControl.h">>,
     <<"//", "RobotControl">>,
     <<"//", "Guanghan", "Pan">>,
     <<"//">>,
     <<"//", "Header", "file", "to", "export", "functions">>,
     <<"//">>,
     <<>>,
     <<>>,
     <<"#", "ifndef", "RobotControl_">>,
     <<"#", "define", "RobotControl_">>,
     <<>>,
     <<"#", "pragma", "GCC", "visibility", "push", "(", "default", ")">>,
     <<>>,
     <<"int", "Clinet", "(", ")", ";">>,
     <<"int", "SendCommand", "(", "char", "*", ")", ";">>,
     <<"int", "GotoView", "(", "char", "*", ")", ";">>,
     <<"int", "LoadPath", "(", "char", "*", ")", ";">>,
     <<"void", "ExecutePath", "(", ")", ";">>,
     <<"int", "SetVelocity", "(", "float", ")", ";">>,
     <<>>,
     <<"#", "pragma", "GCC", "visibility", "pop">>,
     <<"#", "endif">> >>

HeaderLines_TwoArgVelocity ==
  [HeaderLines_VoidExecute EXCEPT
     ![19] = <<"int", "ExecutePath", "(", ")", ";">>,
     ![20] = <<"int", "SetVelocity", "(", "float", ",", "float", ")", ";">>]

HeaderLines_BusyFlag ==
  [HeaderLines_VoidExecute EXCEPT
     ![19] = <<"int", "ExecutePath", "(", ")", ";">>,
     ![21] = <<"int", "robotBusy", ";">>]

HeaderLines ==
  << <<"//">>,
     <<"//", "RobotControl.h">>,
     <<"//", "RobotControl">>,
     <<"//", "Guanghan", "Pan">>,
     <<"//">>,
     <<"//", "Header", "file", "to", "export", "functions">>,
     <<"//">>,
     <<>>,
     <<>>,
     <<"#", "ifndef", "RobotControl_">>,
     <<"#", "define", "RobotControl_">>,
     <<>>,
     <<"#", "pragma", "GCC", "visibility", "push", "(", "default", ")">>,
     <<>>,
     <<"int", "Clinet", "(", ")", ";">>,
     <<"int", "SendCommand", "(", "char", "*", ")", ";">>,
     <<"int", "GotoView", "(", "char", "*", ")", ";">>,
     <<"int", "LoadPath", "(", "char", "*", ")", ";">>,
     <<"int", "ExecutePath", "(", ")", ";">>,
     <<"int", "SetVelocity", "(", "float", ")", ";">>,
     <<>>,
     <<"#", "pragma", "GCC", "visibility", "pop">>,
     <<"#", "endif">> >>

\* ------------------------------------------------------------ line parsing
\* Position of the first occurrence of tok in line, 0 when absent.
IndexOf(line, tok) ==
  IF \E i \in 1..Len(line) : line[i] = tok
  THEN CHOOSE i \in 1..Len(line) :
         line[i] = tok /\ \A j \in 1..(i - 1) : line[j] # tok
  ELSE 0

\* What the translator does with a line.
LineKind(line) ==
  IF line = <<>> THEN "blank"
  ELSE IF line[1] = "//" THEN "comment"
  ELSE IF line[1] = "#" THEN
    IF line[2] = "pragma"
    THEN IF Len(line) >= 5 /\ line[3] = "GCC" /\ line[4] = "visibility"
         THEN line[5]
         ELSE "pragma"
    ELSE line[2]
  ELSE "decl"

\* The parameter list between the parentheses, split at the commas; each
\* parameter is the token sequence of its type.
RECURSIVE SplitParams(_)
SplitParams(toks) ==
  IF toks = <<>> THEN <<>>
  ELSE LET c == IndexOf(toks, ",")
       IN IF c = 0 THEN <<toks>>
          ELSE <<SubSeq(toks, 1, c - 1)>>
                 \o SplitParams(SubSeq(toks, c + 1, Len(toks)))

DeclKind(line) ==
  IF line[1] \in {"typedef", "struct", "union", "enum"} THEN "type"
  ELSE IF IndexOf(line, "(") > 0 THEN "function"
  ELSE "variable"

\* The declaration a declaration line introduces.
ParseDecl(line) ==
  IF DeclKind(line) = "function"
  THEN LET lp == IndexOf(line, "(")
           rp == IndexOf(line, ")")
       IN [kind |-> "function",
           ret |-> SubSeq(line, 1, lp - 2),
           name |-> line[lp - 1],
           params |-> SplitParams(SubSeq(line, lp + 1, rp - 1))]
  ELSE [kind |-> DeclKind(line),
        ret |-> SubSeq(line, 1, Len(line) - 2),
        name |-> line[Len(line) - 1],
        params |-> <<>>]

\* --------------------------------------------------------------- the state
VARIABLES
  pos,          \* 0: in the including file; n > 0: about to read header line n
  macros,       \* the macro table: records [name, body]
  condStack,    \* one BOOLEAN per open #if group: is the group being read
  baseVis,      \* the visibility of the command line (-fvisibility=)
  visStack,     \* the "#pragma GCC visibility" stack
  decls,        \* the declarations emitted so far, each with its visibility
  incStarted,   \* number of #include "RobotControl.h" begun
  incDone,      \* number of them read to the end
  nUndef,       \* number of #undef RobotControl_ in the including file
  guardAtEntry, \* was RobotControl_ defined when the current inclusion began
  stackAtEntry, \* visStack when the current inclusion began
  declsAtEntry, \* decls when the current inclusion began
  loadedPath,   \* the path the library holds, NoPath when none
  supplied,     \* the paths LoadPath calls have supplied
  executed,     \* the paths ExecutePath calls have acted on, in order
  nLoad,        \* number of LoadPath calls
  nExec         \* number of ExecutePath calls

vars == <<pos, macros, condStack, baseVis, visStack, decls, incStarted,
          incDone, nUndef, guardAtEntry, stackAtEntry, declsAtEntry,
          loadedPath, supplied, executed, nLoad, nExec>>

ppVars == <<macros, condStack, visStack, decls>>
histVars == <<guardAtEntry, stackAtEntry, declsAtEntry>>
tuVars == <<incStarted, nUndef>>
libVars == <<loadedPath, supplied, executed, nLoad, nExec>>

\* ------------------------------------------------------------------ helpers
Defined(name, ms) == \E m \in ms : m.name = name

\* #ifndef NAME reads its group when NAME is not defined.
IfndefTaken_Ifdef(name, ms) == Defined(name, ms)
IfndefTaken(name, ms) == ~Defined(name, ms)

\* A line is read only when every enclosing group is being read.
Active(cs) == \A i \in 1..Len(cs) : cs[i]

\* "#pragma GCC visibility push(v)"
PushVis_Hidden(stack, v) == Append(stack, "hidden")
PushVis(stack, v) == Append(stack, v)

\* "#pragma GCC visibility pop"; without a matching push it is diagnosed
\* and ignored.
PopVis_Keep(stack) == stack
PopVis(stack) ==
  IF stack = <<>> THEN stack ELSE SubSeq(stack, 1, Len(stack) - 1)

\* The visibility a declaration gets: the top of the stack, the command
\* line's when the stack is empty.
CurVis(stack, base) == IF stack = <<>> THEN base ELSE stack[Len(stack)]

Line == HeaderLines[pos]

\* After the last line control returns to the including file.
Advance ==
  /\ pos' = IF pos = Len(HeaderLines) THEN 0 ELSE pos + 1
  /\ incDone' = IF pos = Len(HeaderLines) THEN incDone + 1 ELSE incDone

InHeader == pos # 0
Declared(name) == \E i \in 1..Len(decls) : decls[i].name = name

\* -------------------------------------------------------------------- Init
Init ==
  /\ pos = 0
  /\ macros = {}
  /\ condStack = <<>>
  /\ baseVis \in Visibilities
  /\ visStack = <<>>
  /\ decls = <<>>
  /\ incStarted = 0
  /\ incDone = 0
  /\ nUndef = 0
  /\ guardAtEntry = FALSE
  /\ stackAtEntry = <<>>
  /\ declsAtEntry = <<>>
  /\ loadedPath = NoPath
  /\ supplied = {}
  /\ executed = <<>>
  /\ nLoad = 0
  /\ nExec = 0

\* ------------------------------------------- the including translation unit
TUPush ==
  /\ pos = 0
  /\ Len(visStack) < MaxDepth
  /\ \E v \in Visibilities : visStack' = PushVis(visStack, v)
  /\ UNCHANGED <<pos, macros, condStack, baseVis, decls, incDone>>
  /\ UNCHANGED <<histVars, tuVars, libVars>>

TUPop ==
  /\ pos = 0
  /\ visStack' = PopVis(visStack)
  /\ UNCHANGED <<pos, macros, condStack, baseVis, decls, incDone>>
  /\ UNCHANGED <<histVars, tuVars, libVars>>

TUUndef ==
  /\ pos = 0
  /\ nUndef < MaxUndef
  /\ nUndef' = nUndef + 1
  /\ macros' = {m \in macros : m.name # "RobotControl_"}
  /\ UNCHANGED <<pos, condStack, baseVis, visStack, decls, incStarted, incDone>>
  /\ UNCHANGED <<histVars, libVars>>

Include ==
  /\ pos = 0
  /\ incStarted < MaxIncludes
  /\ incStarted' = incStarted + 1
  /\ pos' = 1
  /\ guardAtEntry' = Defined("RobotControl_", macros)
  /\ stackAtEntry' = visStack
  /\ declsAtEntry' = decls
  /\ UNCHANGED <<ppVars, baseVis, incDone, nUndef, libVars>>

\* ------------------------------------------------- reading the header lines
ProcessIfndef ==
  /\ InHeader
  /\ LineKind(Line) = "ifndef"
  /\ condStack' = Append(condStack,
                         Active(condStack) /\ IfndefTaken(Line[3], macros))
  /\ Advance
  /\ UNCHANGED <<macros, baseVis, visStack, decls>>
  /\ UNCHANGED <<histVars, tuVars, libVars>>

ProcessEndif ==
  /\ InHeader
  /\ LineKind(Line) = "endif"
  /\ condStack' = SubSeq(condStack, 1, Len(condStack) - 1)
  /\ Advance
  /\ UNCHANGED <<macros, baseVis, visStack, decls>>
  /\ UNCHANGED <<histVars, tuVars, libVars>>

ProcessDefine ==
  /\ InHeader
  /\ LineKind(Line) = "define"
  /\ Active(condStack)
  /\ macros' = {m \in macros : m.name # Line[3]}
                 \cup {[name |-> Line[3], body |-> SubSeq(Line, 4, Len(Line))]}
  /\ Advance
  /\ UNCHANGED <<condStack, baseVis, visStack, decls>>
  /\ UNCHANGED <<histVars, tuVars, libVars>>

ProcessPush ==
  /\ InHeader
  /\ LineKind(Line) = "push"
  /\ Active(condStack)
  /\ visStack' = PushVis(visStack, Line[7])
  /\ Advance
  /\ UNCHANGED <<macros, condStack, baseVis, decls>>
  /\ UNCHANGED <<histVars, tuVars, libVars>>

ProcessPop ==
  /\ InHeader
  /\ LineKind(Line) = "pop"
  /\ Active(condStack)
  /\ visStack' = PopVis(visStack)
  /\ Advance
  /\ UNCHANGED <<macros, condStack, baseVis, decls>>
  /\ UNCHANGED <<histVars, tuVars, libVars>>

ProcessDecl ==
  /\ InHeader
  /\ LineKind(Line) = "decl"
  /\ Active(condStack)
  /\ decls' = Append(decls, [decl |-> ParseDecl(Line),
                             name |-> ParseDecl(Line).name,
                             vis |-> CurVis(visStack, baseVis),
                             line |-> pos])
  /\ Advance
  /\ UNCHANGED <<macros, condStack, baseVis, visStack>>
  /\ UNCHANGED <<histVars, tuVars, libVars>>

\* Comments and blank lines, and every line of a group that is not read.
SkipLine ==
  /\ InHeader
  /\ \/ LineKind(Line) \in {"blank", "comment"}
     \/ /\ ~Active(condStack)
        /\ LineKind(Line) \notin {"ifndef", "endif"}
  /\ Advance
  /\ UNCHANGED <<ppVars, baseVis>>
  /\ UNCHANGED <<histVars, tuVars, libVars>>

\* ------------------------------------------------------ calls to the library
LoadPath ==
  /\ pos = 0
  /\ Declared("LoadPath")
  /\ nLoad + nExec < MaxCalls
  /\ \E p \in Paths :
       /\ loadedPath' = p
       /\ supplied' = supplied \cup {p}
  /\ nLoad' = nLoad + 1
  /\ UNCHANGED <<pos, ppVars, baseVis, incDone, histVars, tuVars, executed, nExec>>

ExecutePath_Default ==
  /\ pos = 0
  /\ Declared("ExecutePath")
  /\ nLoad + nExec < MaxCalls
  /\ executed' = Append(executed,
                        IF loadedPath = NoPath THEN "pathA" ELSE loadedPath)
  /\ nExec' = nExec + 1
  /\ UNCHANGED <<pos, ppVars, baseVis, incDone, histVars, tuVars,
                 loadedPath, supplied, nLoad>>

ExecutePath ==
  /\ pos = 0
  /\ Declared("ExecutePath")
  /\ nLoad + nExec < MaxCalls
  /\ executed' = IF loadedPath = NoPath THEN executed
                 ELSE Append(executed, loadedPath)
  /\ nExec' = nExec + 1
  /\ UNCHANGED <<pos, ppVars, baseVis, incDone, histVars, tuVars,
                 loadedPath, supplied, nLoad>>

Next ==
  \/ TUPush
  \/ TUPop
  \/ TUUndef
  \/ Include
  \/ ProcessIfndef
  \/ ProcessEndif
  \/ ProcessDefine
  \/ ProcessPush
  \/ ProcessPop
  \/ ProcessDecl
  \/ SkipLine
  \/ LoadPath
  \/ ExecutePath

Spec == Init /\ [][Next]_vars

\* ------------------------------------------------------------- properties
Six == {"Clinet", "SendCommand", "GotoView", "LoadPath", "ExecutePath",
        "SetVelocity"}

DeclNames == {decls[i].name : i \in 1..Len(decls)}

\* C1: the interface is exactly the six operations and each is declared
\* with return type int, none void; the header names no status value (no
\* macro with a body, no enum or other type declaration).
C1_SixIntOperations ==
  /\ \A i \in 1..Len(decls) :
       /\ decls[i].decl.kind = "function"
       /\ decls[i].decl.ret = <<"int">>
  /\ DeclNames \subseteq Six
  /\ incDone >= 1 => DeclNames = Six /\ Cardinality(DeclNames) = 6
  /\ \A m \in macros : m.body = <<>>

C1_Witness ==
  /\ pos = 0
  /\ incDone >= 1
  /\ Len(decls) = 6
  /\ decls[5].name = "ExecutePath"

\* C2: SendCommand, GotoView and LoadPath each declare exactly one char
\* pointer, SetVelocity exactly one float, Clinet and ExecutePath declare no
\* parameter; nothing but functions is declared and the only macro is the
\* include guard, which has no value.
ExpectedParams ==
  [Clinet |-> <<>>,
   SendCommand |-> << <<"char", "*">> >>,
   GotoView |-> << <<"char", "*">> >>,
   LoadPath |-> << <<"char", "*">> >>,
   ExecutePath |-> <<>>,
   SetVelocity |-> << <<"float">> >>]

C2_PrimitiveInputsOnly ==
  /\ \A i \in 1..Len(decls) :
       /\ decls[i].decl.kind \notin {"type", "variable"}
       /\ decls[i].name \in DOMAIN ExpectedParams
       /\ decls[i].decl.params = ExpectedParams[decls[i].name]
  /\ macros \subseteq {[name |-> "RobotControl_", body |-> <<>>]}

C2_Witness ==
  /\ Declared("SetVelocity")
  /\ Declared("SendCommand")
  /\ Declared("Clinet")
  /\ Defined("RobotControl_", macros)

C4_DefaultVisibility ==
  \A i \in 1..Len(decls) : decls[i].vis = "default"

C4_Witness ==
  /\ Len(decls) >= 6
  /\ baseVis = "internal"
  /\ stackAtEntry # <<>>
  /\ CurVis(stackAtEntry, baseVis) = "hidden"

\* C5: the header declares no shared variable, and no operation takes or
\* returns a lock, a thread, a callback or an opaque handle.
SyncTokens == {"pthread_mutex_t", "pthread_cond_t", "pthread_t", "sem_t",
               "dispatch_queue_t", "void", "(", "volatile", "_Atomic"}

TokensOf(d) ==
  {d.ret[k] : k \in 1..Len(d.ret)}
    \cup UNION {{d.params[j][k] : k \in 1..Len(d.params[j])}
                  : j \in 1..Len(d.params)}

C5_NoSharedResource ==
  \A i \in 1..Len(decls) :
    /\ decls[i].decl.kind # "variable"
    /\ TokensOf(decls[i].decl) \cap SyncTokens = {}

C5_Witness ==
  /\ pos = 0
  /\ Len(decls) = 12
  /\ nLoad >= 1
  /\ nExec >= 1

\* C6: when an inclusion of the header ends, the visibility stack is the
\* one the inclusion began with (same depth, same entries, same top).
C6_VisibilityRestored ==
  [][(pos # 0 /\ pos' = 0) =>
       /\ visStack' = stackAtEntry
       /\ CurVis(visStack', baseVis') = CurVis(stackAtEntry, baseVis)]_vars

C6_Witness ==
  /\ pos = 0
  /\ incDone >= 2
  /\ visStack = stackAtEntry
  /\ visStack = <<"protected">>
  /\ baseVis = "hidden"

\* C7: an inclusion that begins with RobotControl_ defined adds no
\* declaration and touches neither the visibility stack nor the macro
\* table; as long as the guard was never undefined, any number n >= 1 of
\* inclusions leaves exactly the six declarations of the first one.
C7_InclusionIdempotent ==
  /\ guardAtEntry =>
       /\ decls = declsAtEntry
       /\ InHeader => visStack = stackAtEntry
       /\ Defined("RobotControl_", macros) \/ ~InHeader
  /\ (incDone >= 1 /\ nUndef = 0) =>
       /\ Len(decls) = 6
       /\ DeclNames = Six
       /\ Defined("RobotControl_", macros)

C7_Witness ==
  /\ pos = 0
  /\ incDone >= 3
  /\ nUndef = 0
  /\ guardAtEntry
  /\ Len(decls) = 6
====
